---- MODULE Spec2Model ----
(***************************************************************************)
(* Model of the medication reminder engine of src/app.js: the due-date     *)
(* rule isMedicationDueToday, the MedicationReminders component (todaysMeds *)
(* memo, the scheduling effect with its setTimeout callbacks and cleanup,  *)
(* handleMarkTaken, the rendered Taken / Missed / Mark Taken markers) and  *)
(* the part of App that mounts and unmounts it.                            *)
(*                                                                         *)
(* Time is counted in ticks since 00:00 UTC of day 0.  The browser runs in *)
(* a time zone tz ticks away from UTC: toISOString() yields the UTC date,  *)
(* setHours() and toDateString() work on the local date.  A clock time     *)
(* "HH:MM" is the tick of the local day it names.  Timer callbacks run     *)
(* when their delay has elapsed, before the clock moves on.                *)
(*                                                                         *)
(* localStorage is shared with other browsing contexts of the same origin; *)
(* one other context running the same handleMarkTaken is modelled by its   *)
(* in-memory takenMedsState and its rendered buttons.                      *)
(***************************************************************************)
EXTENDS Integers, Sequences, FiniteSets, TLC

\* ---------------------------------------------------------- constants
\* one tick is half an hour
OneHour == 2
TwoHours == 4
DayLen == 48

\* ------------------------------------------------------------- bounds
\* at most MaxEvents page changes and snapshots of the medication records
\* happen after sign-in
MaxEvents == 2

\* start dates and query dates of the due-date rule range over days 0..MaxDay
MaxDay == 16

\* the run ends at the last tick of local day 0
EndTick == DayLen - 1

NoTime == -1
NoDate == -1

ClockTimes == {21 * OneHour}

\* the run starts at the clock time of the slots, local time, on day 0
StartTick == 21 * OneHour

TzChoices == {0, -(TwoHours + 1)}
Days == 0..MaxDay
Pages == {"dashboard", "log"}
Permissions == {"default", "granted", "denied"}

VARIABLES
    now,                 \* the clock, in ticks since 00:00 UTC of day 0
    tz,                  \* local time minus UTC, in ticks
    currentPage,         \* App state currentPage
    isAuthReady,         \* App state isAuthReady
    mainIbdMed,          \* App state mainIbdMed (NoMed for null)
    supplements,         \* App state supplements
    todaysMeds,          \* the memoised due list of the mounted component
    takenMedsState,      \* component state takenMedsState (set of keys mapped to true)
    notificationTimers,  \* the ref notificationTimers.current: table key -> timer id
    notifiedGeneralMeds, \* the ref notifiedGeneralMeds.current
    timers,              \* the browser's pending timeouts
    store,               \* localStorage takenMeds_<date>: date -> set of keys mapped to true
    permission,          \* Notification.permission
    buttons,             \* keys whose Mark Taken button is in the rendered output
    fired,               \* log: timer callbacks that ran and notifications shown
    gen,                 \* number of scheduling passes and unmounts so far
    inst,                \* gen of the pass that mounted the current component instance
    events,              \* number of page changes and snapshots after sign-in so far
    otherTaken,          \* the other context's takenMedsState
    otherButtons,        \* the other context's rendered Mark Taken buttons
    acked,               \* history: the handleMarkTaken calls of this context, with their time
    untouched,           \* history: nothing has happened since the last scheduling pass
    departureDate,       \* TravelModePage state departureDate (NoDate for '')
    returnDate,          \* TravelModePage state returnDate (NoDate for '')
    primaryMedNeeded,    \* TravelModePage state primaryMedNeeded
    supplementsNeeded    \* TravelModePage state supplementsNeeded: name -> doses

vars == <<now, tz, currentPage, isAuthReady, mainIbdMed, supplements, todaysMeds,
          takenMedsState, notificationTimers, notifiedGeneralMeds, timers, store,
          permission, buttons, fired, gen, inst, events, otherTaken, otherButtons,
          acked, untouched, departureDate, returnDate, primaryMedNeeded,
          supplementsNeeded>>

\* the state of TravelModePage
travel == <<departureDate, returnDate, primaryMedNeeded, supplementsNeeded>>

\* ------------------------------------------------------ dates and times
\* new Date().toISOString().slice(0, 10): the UTC calendar date
TodayKey(t) == t \div DayLen

\* the local calendar date of an instant
LocalDay(t) == (t + tz) \div DayLen

\* d = new Date(); d.setHours(hours, minutes, 0, 0): the instant of the
\* clock time on the local date of t
MedDateTime(time, t) == LocalDay(t) * DayLen + time - tz

OneHourAfter(medDateTime) == medDateTime + OneHour

TwoHoursAfter(medDateTime) == medDateTime + TwoHours

\* `${med.id}_${t.time}` and `${medIdentifier}_second`
MedIdentifier(id, time) == <<id, time, "first">>

SecondKey(medIdentifier) == <<medIdentifier[1], medIdentifier[2], "second">>

\* ---------------------------------------------------- medication records
Frequencies == {"Once daily", "Twice daily", "Three times daily", "Every other day",
                "Every three days", "Every four days", "Weekly", "Bi-weekly", "As needed"}

NoMed == [id |-> "", frequency |-> "", medTimes |-> <<>>, startDate |-> NoDate]

MainMed(times) ==
    [id |-> "main_doc",
     frequency |-> IF Len(times) = 1 THEN "Once daily" ELSE "Twice daily",
     medTimes |-> times, startDate |-> NoDate]

Supplement(times) ==
    [id |-> "s1", frequency |-> "Once daily", medTimes |-> times, startDate |-> NoDate]

MainChoices ==
    {NoMed} \cup {MainMed(ts) : ts \in {<<21 * OneHour>>, <<21 * OneHour, 21 * OneHour>>}}

SupplementChoices == {<<>>, <<Supplement(<<>>)>>, <<Supplement(<<21 * OneHour>>)>>}

Keys == {MedIdentifier(id, c) : id \in {"main_doc", "s1"}, c \in ClockTimes}

\* ------------------------------------------------- isMedicationDueToday
RequiresStartDate(frequency) ==
    frequency \in {"Every other day", "Weekly", "Bi-weekly", "Every three days",
                   "Every four days"}

\* new Date(med.startDate) parses the date as 00:00 UTC; setHours(0,0,0,0)
\* moves it to 00:00 of the local date of that instant
StartLocalDay(startDate) == LocalDay(startDate * DayLen)

\* Math.floor((todayDate - startDate) / msPerDay), both at local midnight
DiffDays(med, t) == LocalDay(t) - StartLocalDay(med.startDate)

\* Date.getDay() of a local date
GetDay(localDay) == localDay % 7

\* a due-date rule that never looks at the start date
IsDueWithoutStartDate(med, t) ==
    med # NoMed /\ med.frequency # "" /\ med.frequency # "As needed"

\* a due-date rule under which every record with a frequency is due daily
IsDueEveryDay(med, t) == med # NoMed /\ med.frequency # ""

\* a due-date rule that waits for the start date for every frequency
IsDueFromStartDate(med, t) ==
    /\ IsDueWithoutStartDate(med, t)
    /\ med.startDate # NoDate => DiffDays(med, t) >= 0

IsMedicationDueToday(med, t) ==
    IF med = NoMed \/ med.frequency = "" THEN FALSE
    ELSE IF med.frequency = "As needed" THEN FALSE
    ELSE IF RequiresStartDate(med.frequency) /\ med.startDate = NoDate THEN FALSE
    ELSE CASE med.frequency \in {"Once daily", "Twice daily", "Three times daily"} -> TRUE
           [] med.frequency = "Every other day" ->
                  DiffDays(med, t) >= 0 /\ DiffDays(med, t) % 2 = 0
           [] med.frequency = "Every three days" ->
                  DiffDays(med, t) >= 0 /\ DiffDays(med, t) % 3 = 0
           [] med.frequency = "Every four days" ->
                  DiffDays(med, t) >= 0 /\ DiffDays(med, t) % 4 = 0
           [] med.frequency = "Weekly" ->
                  GetDay(LocalDay(t)) = GetDay(StartLocalDay(med.startDate))
           [] med.frequency = "Bi-weekly" ->
                  /\ GetDay(LocalDay(t)) = GetDay(StartLocalDay(med.startDate))
                  /\ (DiffDays(med, t) \div 7) % 2 = 0
           [] OTHER -> FALSE

\* --------------------------------------------------------- todaysMeds
\* the useMemo: primary first, then the supplements, filtered by due-ness;
\* times is <<>> where the code stores null
\* a due list that repeats the configured times of every medication
TodaysMedsRepeated(main, sups, t) ==
    LET allMeds == (IF main # NoMed THEN <<main>> ELSE <<>>) \o sups
        medsDueToday == SelectSeq(allMeds, LAMBDA med : IsMedicationDueToday(med, t))
    IN  [i \in 1..Len(medsDueToday) |->
            [id |-> medsDueToday[i].id, frequency |-> medsDueToday[i].frequency,
             times |-> medsDueToday[i].medTimes \o medsDueToday[i].medTimes]]

TodaysMeds(main, sups, t) ==
    LET allMeds == (IF main # NoMed THEN <<main>> ELSE <<>>) \o sups
        medsDueToday == SelectSeq(allMeds, LAMBDA med : IsMedicationDueToday(med, t))
    IN  [i \in 1..Len(medsDueToday) |->
            [id |-> medsDueToday[i].id, frequency |-> medsDueToday[i].frequency,
             times |-> medsDueToday[i].medTimes]]

\* the timed slots in the order the nested forEach visits them
RECURSIVE TimedSlots(_)
TimedSlots(tm) ==
    IF tm = <<>> THEN <<>>
    ELSE [j \in 1..Len(Head(tm).times) |-> [id |-> Head(tm).id, time |-> Head(tm).times[j]]]
         \o TimedSlots(Tail(tm))

SlotKey(slot) == MedIdentifier(slot.id, slot.time)

SlotKeys(tm) == {SlotKey(TimedSlots(tm)[i]) : i \in 1..Len(TimedSlots(tm))}

\* ------------------------------------------------------------- render
\* the keys rendered as a Mark Taken button: not taken in takenMedsState and
\* scheduled time not before now
Rendered(tm, taken, t) ==
    {k \in SlotKeys(tm) : k \notin taken /\ ~(MedDateTime(k[2], t) < t)}

Mounted == currentPage = "dashboard" /\ isAuthReady

\* ------------------------------------------------------------- timers
TimerId(g, i, tier) == [gen |-> g, idx |-> i, tier |-> tier]

\* clearTimeout of every id the table holds
Cleared(tmrs, table) ==
    {t \in tmrs : \A k \in DOMAIN table : table[k] # t.tid}

\* a pass that also arms the slot whose first reminder is due at this very moment
ArmedIdxInclusive(tm, stored, t) ==
    {i \in 1..Len(TimedSlots(tm)) :
        /\ SlotKey(TimedSlots(tm)[i]) \notin stored
        /\ OneHourAfter(MedDateTime(TimedSlots(tm)[i].time, t)) >= t}

\* the slots for which the pass calls setTimeout
ArmedIdx(tm, stored, t) ==
    {i \in 1..Len(TimedSlots(tm)) :
        /\ SlotKey(TimedSlots(tm)[i]) \notin stored
        /\ OneHourAfter(MedDateTime(TimedSlots(tm)[i].time, t)) > t}

FirstTimer(slot, i, g, in, t) ==
    [tid |-> TimerId(g, i, 1), tier |-> 1, key |-> SlotKey(slot),
     at |-> OneHourAfter(MedDateTime(slot.time, t)),
     twoHoursAfter |-> TwoHoursAfter(MedDateTime(slot.time, t)),
     todayKey |-> TodayKey(t), armGen |-> g, inst |-> in]

\* an escalation whose delay is counted from the first reminder
SecondTimerLate(first, g) ==
    [tid |-> TimerId(first.tid.gen, first.tid.idx, 2), tier |-> 2, key |-> first.key,
     at |-> first.at + TwoHours, twoHoursAfter |-> first.twoHoursAfter,
     todayKey |-> first.todayKey, armGen |-> g, inst |-> first.inst]

SecondTimer(first, g) ==
    [tid |-> TimerId(first.tid.gen, first.tid.idx, 2), tier |-> 2, key |-> first.key,
     at |-> first.twoHoursAfter, twoHoursAfter |-> first.twoHoursAfter,
     todayKey |-> first.todayKey, armGen |-> g, inst |-> first.inst]

\* the table after the forEach: a later slot with the same key overwrites
PassTable(tm, stored, g, t) ==
    LET slots == TimedSlots(tm)
        armed == ArmedIdx(tm, stored, t)
        keys  == {SlotKey(slots[i]) : i \in armed}
        Last(k) == CHOOSE i \in armed :
                       /\ SlotKey(slots[i]) = k
                       /\ \A j \in armed : SlotKey(slots[j]) = k => j <= i
    IN  [k \in keys |-> TimerId(g, Last(k), 1)]

\* ---------------------------------------------------- the scheduling pass
\* the body of the effect, run on tm with the table and marker of the
\* instance and the timers left by the cleanup
Pass(tm, table, marker, tmrs, g, in) ==
    LET todayKey == TodayKey(now)
        storedTakenMeds == store[todayKey]
        slots == TimedSlots(tm)
        marker1 == IF marker.date # todayKey THEN [date |-> todayKey, ids |-> {}]
                   ELSE marker
        general == {i \in 1..Len(tm) :
                       /\ tm[i].times = <<>>
                       /\ <<tm[i].id, todayKey>> \notin marker1.ids
                       /\ permission = "granted"}
    IN  /\ takenMedsState' = storedTakenMeds
        /\ timers' = Cleared(tmrs, table)
                     \cup {FirstTimer(slots[i], i, g, in, now) :
                               i \in ArmedIdx(tm, storedTakenMeds, now)}
        /\ notificationTimers' = PassTable(tm, storedTakenMeds, g, now)
        /\ notifiedGeneralMeds' =
               [date |-> todayKey,
                ids |-> marker1.ids \cup {<<tm[i].id, todayKey>> : i \in general}]
        /\ fired' = fired \cup
               {[tid |-> TimerId(g, i, 0), tier |-> 0, key |-> <<tm[i].id, NoTime, "general">>,
                 at |-> now, emitted |-> TRUE, inst |-> in] : i \in general}
        /\ buttons' = Rendered(tm, storedTakenMeds, now)
        /\ todaysMeds' = tm
        /\ gen' = g
        /\ untouched' = TRUE

EmptyMarker == [date |-> NoDate, ids |-> {}]

EmptyTable == [k \in {} |-> TimerId(0, 0, 0)]

\* a new component instance: fresh state and refs, the memo, then the effect
Mount ==
    /\ Pass(TodaysMeds(mainIbdMed, supplements, now), EmptyTable, EmptyMarker, timers,
            gen + 1, gen + 1)
    /\ inst' = gen + 1

\* the effect's cleanup at unmount: clearTimeout of every id in the table
Unmount ==
    /\ timers' = Cleared(timers, notificationTimers)
    /\ gen' = gen + 1
    /\ untouched' = FALSE
    /\ UNCHANGED <<todaysMeds, takenMedsState, notificationTimers, notifiedGeneralMeds,
                   fired, buttons, inst>>

\* mainIbdMed or supplements changed while mounted: the memo is recomputed,
\* the cleanup of the previous effect runs, then the effect
Resync(main, sups) ==
    /\ Pass(TodaysMeds(main, sups, now), notificationTimers, notifiedGeneralMeds,
            Cleared(timers, notificationTimers), gen + 1, inst)
    /\ inst' = inst

\* the other context shows its dashboard throughout: the same snapshot makes
\* it recompute its memo and re-run its effect, which loads the store of the
\* current date into its takenMedsState and renders
OtherResync(main, sups) ==
    /\ otherTaken' = store[TodayKey(now)]
    /\ otherButtons' = Rendered(TodaysMeds(main, sups, now), store[TodayKey(now)], now)

\* the component is not mounted: its state, refs and timers stay as they are
Idle ==
    /\ untouched' = FALSE
    /\ UNCHANGED <<todaysMeds, takenMedsState, notificationTimers, notifiedGeneralMeds,
                   timers, fired, buttons, gen, inst>>

\* TravelModePage before any date is entered
NoTravel ==
    /\ departureDate = NoDate
    /\ returnDate = NoDate
    /\ primaryMedNeeded = 0
    /\ supplementsNeeded = <<>>

\* ------------------------------------------------------------ actions
Init ==
    /\ tz \in TzChoices
    /\ now = StartTick - tz
    /\ currentPage = "dashboard"
    /\ isAuthReady = FALSE
    /\ mainIbdMed = NoMed
    /\ supplements = <<>>
    /\ todaysMeds = <<>>
    /\ takenMedsState = {}
    /\ notificationTimers = EmptyTable
    /\ notifiedGeneralMeds = EmptyMarker
    /\ timers = {}
    /\ store = [d \in Days |-> {}]
    /\ permission \in {"default", "granted"}
    /\ buttons = {}
    /\ fired = {}
    /\ gen = 0
    /\ inst = 0
    /\ events = 0
    /\ otherTaken = {}
    /\ otherButtons = {}
    /\ acked = {}
    /\ untouched = FALSE
    /\ NoTravel

\* onAuthStateChanged: setIsAuthReady(true); DashboardPage then renders
\* MedicationReminders
AuthStateChanged ==
    /\ ~isAuthReady
    /\ isAuthReady' = TRUE
    /\ IF currentPage = "dashboard"
       THEN Mount
       ELSE Idle
    /\ UNCHANGED travel
    /\ UNCHANGED <<now, tz, currentPage, mainIbdMed, supplements, store, permission,
                   events, otherTaken, otherButtons, acked>>

\* a NavLink click: setCurrentPage(page)
Navigate(page) ==
    /\ page # currentPage
    /\ events < MaxEvents
    /\ currentPage' = page
    /\ IF ~isAuthReady
       THEN Idle /\ events' = events
       ELSE /\ events' = events + 1
            /\ IF page = "dashboard" THEN Mount ELSE Unmount
    /\ UNCHANGED travel
    /\ UNCHANGED <<now, tz, isAuthReady, mainIbdMed, supplements, store, permission,
                   otherTaken, otherButtons, acked>>

\* onSnapshot of main_ibd_med/main_doc: setMainIbdMed with a new object
SnapshotMain(med) ==
    /\ isAuthReady
    /\ events < MaxEvents
    /\ events' = events + 1
    /\ mainIbdMed' = med
    /\ IF Mounted
       THEN Resync(med, supplements)
       ELSE Idle
    /\ OtherResync(med, supplements)
    /\ UNCHANGED travel
    /\ UNCHANGED <<now, tz, currentPage, isAuthReady, supplements, store, permission, acked>>

\* onSnapshot of current_supplements: setSupplements with a new array
SnapshotSupplements(sups) ==
    /\ isAuthReady
    /\ events < MaxEvents
    /\ events' = events + 1
    /\ supplements' = sups
    /\ IF Mounted
       THEN Resync(mainIbdMed, sups)
       ELSE Idle
    /\ OtherResync(mainIbdMed, sups)
    /\ UNCHANGED travel
    /\ UNCHANGED <<now, tz, currentPage, isAuthReady, mainIbdMed, store, permission, acked>>

\* a re-render of the mounted component with no change of its memo (the
\* context value is a new object on every App render)
Rerender ==
    /\ Mounted
    /\ buttons' = Rendered(todaysMeds, takenMedsState, now)
    /\ buttons' # buttons
    /\ UNCHANGED travel
    /\ UNCHANGED <<now, tz, currentPage, isAuthReady, mainIbdMed, supplements, todaysMeds,
                   takenMedsState, notificationTimers, notifiedGeneralMeds, timers, store,
                   permission, fired, gen, inst, events, otherTaken, otherButtons, acked>>
    /\ untouched' = FALSE

\* delete table[k] for every k of ks
Without(table, ks) == [k \in DOMAIN table \ ks |-> table[k]]

\* handleMarkTaken, reached through a rendered Mark Taken button
MarkTaken(medIdentifier) ==
    /\ Mounted
    /\ medIdentifier \in buttons
    /\ takenMedsState' = takenMedsState \cup {medIdentifier}
    /\ store' = [store EXCEPT ![TodayKey(now)] = takenMedsState \cup {medIdentifier}]
    /\ timers' = Cleared(timers, [k \in DOMAIN notificationTimers
                                       \cap {medIdentifier, SecondKey(medIdentifier)}
                                   |-> notificationTimers[k]])
    /\ notificationTimers' =
           Without(notificationTimers, {medIdentifier, SecondKey(medIdentifier)})
    /\ buttons' = Rendered(todaysMeds, takenMedsState', now)
    /\ UNCHANGED travel
    /\ UNCHANGED <<now, tz, currentPage, isAuthReady, mainIbdMed, supplements, todaysMeds,
                   notifiedGeneralMeds, permission, fired, gen, inst, events, otherTaken,
                   otherButtons>>
    /\ acked' = acked \cup {[key |-> medIdentifier, at |-> now]}
    /\ untouched' = FALSE

\* what both callbacks test before new Notification(...)
Unacknowledged(t) == t.key \notin store[t.todayKey]

\* the first-tier setTimeout callback
FireFirst(t) ==
    /\ t \in timers
    /\ t.tier = 1
    /\ t.at <= now
    /\ LET escalate == t.twoHoursAfter > now
           second == SecondTimer(t, gen)
           table1 == IF escalate /\ t.inst = inst
                     THEN [k \in DOMAIN notificationTimers \cup {SecondKey(t.key)} |->
                              IF k = SecondKey(t.key) THEN second.tid
                              ELSE notificationTimers[k]]
                     ELSE notificationTimers
       IN  /\ timers' = (timers \ {t}) \cup (IF escalate THEN {second} ELSE {})
           /\ notificationTimers' =
                  IF t.inst = inst THEN Without(table1, {t.key}) ELSE notificationTimers
           /\ fired' = fired \cup
                  {[tid |-> t.tid, tier |-> 1, key |-> t.key, at |-> now,
                    emitted |-> Unacknowledged(t) /\ permission = "granted"]}
    /\ UNCHANGED travel
    /\ UNCHANGED <<now, tz, currentPage, isAuthReady, mainIbdMed, supplements, todaysMeds,
                   takenMedsState, notifiedGeneralMeds, store, permission, buttons, gen,
                   inst, events, otherTaken, otherButtons, acked>>
    /\ untouched' = FALSE

\* the second-tier setTimeout callback
FireSecond(t) ==
    /\ t \in timers
    /\ t.tier = 2
    /\ t.at <= now
    /\ timers' = timers \ {t}
    /\ notificationTimers' =
           IF t.inst = inst THEN Without(notificationTimers, {SecondKey(t.key)})
           ELSE notificationTimers
    /\ fired' = fired \cup
           {[tid |-> t.tid, tier |-> 2, key |-> t.key, at |-> now,
             emitted |-> Unacknowledged(t) /\ permission = "granted"]}
    /\ UNCHANGED travel
    /\ UNCHANGED <<now, tz, currentPage, isAuthReady, mainIbdMed, supplements, todaysMeds,
                   takenMedsState, notifiedGeneralMeds, store, permission, buttons, gen,
                   inst, events, otherTaken, otherButtons, acked>>
    /\ untouched' = FALSE

\* the user allows notifications at the prompt of
\* Notification.requestPermission(); a permission left at "default" or set to
\* "denied" fails the same test === 'granted'
PermissionAnswer(p) ==
    /\ permission = "default"
    /\ inst > 0
    /\ p = "granted"
    /\ permission' = p
    /\ UNCHANGED travel
    /\ UNCHANGED <<now, tz, currentPage, isAuthReady, mainIbdMed, supplements, todaysMeds,
                   takenMedsState, notificationTimers, notifiedGeneralMeds, timers, store,
                   buttons, fired, gen, inst, events, otherTaken, otherButtons, acked>>
    /\ untouched' = FALSE

\* handleMarkTaken in the other context
OtherMarkTaken(medIdentifier) ==
    /\ medIdentifier \in otherButtons
    /\ otherTaken' = otherTaken \cup {medIdentifier}
    /\ store' = [store EXCEPT ![TodayKey(now)] = otherTaken \cup {medIdentifier}]
    /\ otherButtons' = {k \in otherButtons \ {medIdentifier} : ~(MedDateTime(k[2], now) < now)}
    /\ UNCHANGED travel
    /\ UNCHANGED <<now, tz, currentPage, isAuthReady, mainIbdMed, supplements, todaysMeds,
                   takenMedsState, notificationTimers, notifiedGeneralMeds, timers,
                   permission, buttons, fired, gen, inst, events, acked>>
    /\ untouched' = FALSE

\* time passes (sign-in completes within the first tick); a timeout whose
\* delay has elapsed runs first
Tick ==
    /\ isAuthReady
    /\ now + tz < EndTick
    /\ \A t \in timers : t.at > now
    /\ now' = now + 1
    /\ UNCHANGED travel
    /\ UNCHANGED <<tz, currentPage, isAuthReady, mainIbdMed, supplements, todaysMeds,
                   takenMedsState, notificationTimers, notifiedGeneralMeds, timers, store,
                   permission, buttons, fired, gen, inst, events, otherTaken, otherButtons,
                   acked>>
    /\ untouched' = FALSE

Next ==
    \/ AuthStateChanged
    \/ \E page \in Pages : Navigate(page)
    \/ \E med \in MainChoices \ {NoMed} : SnapshotMain(med)
    \/ \E sups \in SupplementChoices \ {<<>>} : SnapshotSupplements(sups)
    \/ Rerender
    \/ \E k \in Keys : MarkTaken(k)
    \/ \E t \in timers : FireFirst(t)
    \/ \E t \in timers : FireSecond(t)
    \/ \E p \in Permissions : PermissionAnswer(p)
    \/ \E k \in Keys : OtherMarkTaken(k)
    \/ Tick

Spec == Init /\ [][Next]_vars

\* ------------------------------------------------- vocabulary of the claims
\* the step is a scheduling pass (Mount or Resync)
ScheduledPass == gen' = gen + 1 /\ untouched'

\* the step runs the callback of the pending timer t
Ran(t) == t \in timers /\ \E r \in fired' \ fired : r.tid = t.tid

\* the step runs the callback of t and shows its notification
Emitted(t) == \E r \in fired' \ fired : r.tid = t.tid /\ r.emitted

\* two instants of the same calendar day, by the UTC and by the local calendar
SameDay(a, b) == TodayKey(a) = TodayKey(b) /\ LocalDay(a) = LocalDay(b)

\* ---------------------------------------------------------------- C1
\* C1: a step in which handleMarkTaken(k) runs leaves no pending timer for k,
\* first or second tier, and k in the map of the current date; and no step
\* shows a first-tier or urgent notification for a key that was marked taken
\* earlier on the same calendar day.
C1_AcknowledgedSlotStaysSilent ==
    [][/\ \A a \in acked' \ acked :
              /\ \A t \in timers' : t.key # a.key
              /\ a.key \notin DOMAIN notificationTimers'
              /\ SecondKey(a.key) \notin DOMAIN notificationTimers'
              /\ a.key \in store'[TodayKey(now)]
       /\ \A r \in fired' \ fired :
              (r.tier \in {1, 2} /\ r.emitted) =>
                  \A a \in acked : a.key = r.key => ~SameDay(a.at, r.at)]_vars

\* ---------------------------------------------------------------- C2
\* C2: a first-tier or second-tier callback that runs while the map of the
\* current date holds its key shows no notification.
C2_AcknowledgedAtCallbackIsSilent ==
    [][\A t \in timers :
           (Ran(t) /\ t.key \in store[TodayKey(now)]) => ~Emitted(t)]_vars

\* ---------------------------------------------------------------- C3
\* C3: within one calendar day a slot key gets at most one first-tier and at
\* most one urgent notification.
C3_AtMostOnePerTier ==
    \A r1, r2 \in fired :
        (/\ r1.tier \in {1, 2} /\ r1.tier = r2.tier /\ r1.key = r2.key
         /\ r1.emitted /\ r2.emitted
         /\ SameDay(r1.at, r2.at)) => r1 = r2

\* ---------------------------------------------------------------- C4
\* C4: a scheduling pass arms the first-tier timer of a timed slot of the
\* due-set, for clock time + 1 h, if and only if the slot's key is not in the
\* map of the current date and clock time + 1 h is strictly later than now; a
\* slot that is marked taken, or whose clock time is more than 2 h in the
\* past, gets no timer at all from the pass.
C4_PassArmsFirstTier ==
    [][ScheduledPass =>
          \A i \in 1..Len(TimedSlots(todaysMeds')) :
              LET slot == TimedSlots(todaysMeds')[i]
                  clockTime == MedDateTime(slot.time, now)
                  taken == SlotKey(slot) \in store[TodayKey(now)]
                  armed == \E t \in timers' :
                               /\ t.tid = TimerId(gen', i, 1)
                               /\ t.key = SlotKey(slot)
                               /\ t.at = clockTime + OneHour
              IN  /\ armed <=> (~taken /\ clockTime + OneHour > now)
                  /\ (taken \/ clockTime + TwoHours < now) =>
                         \A t \in timers' : t.armGen = gen' => t.key # SlotKey(slot)]_vars

\* a pass has just armed the first-tier timer of one slot and skipped a slot
\* that is marked taken
C4_Witness ==
    /\ Mounted /\ untouched
    /\ \E t \in timers : t.tier = 1 /\ t.armGen = gen
    /\ \E k \in SlotKeys(todaysMeds) :
           k \in store[TodayKey(now)] /\ \A t \in timers : t.key # k

\* a pass has just run more than 2 h after the clock time of an unacknowledged
\* slot and armed nothing
C4_WitnessLate ==
    /\ Mounted /\ untouched /\ timers = {}
    /\ \E k \in SlotKeys(todaysMeds) :
           k \notin store[TodayKey(now)] /\ MedDateTime(k[2], now) + TwoHours < now

\* ---------------------------------------------------------------- C5
\* C5: with no pass or teardown since the timer was armed, the first-tier
\* callback runs at clock time + 1 h, shows the first-tier notification when
\* the slot is unacknowledged and permission is granted, and arms the escalated
\* timer for clock time + 2 h at that moment; the second-tier callback runs at
\* clock time + 2 h, after the first-tier callback of the key has run, and
\* shows the urgent notification under the same conditions.  The clock never
\* moves past a timer whose delay has elapsed.
C5_EscalationSchedule ==
    [][/\ \A t \in timers :
              (Ran(t) /\ t.armGen = gen) =>
                  LET clockTime == MedDateTime(t.key[2], now)
                      unacknowledged == \A d \in Days : t.key \notin store[d]
                  IN  IF t.tier = 1
                      THEN /\ now = clockTime + OneHour
                           /\ (unacknowledged /\ permission = "granted") => Emitted(t)
                           /\ \E s \in timers' \ timers :
                                  s.tier = 2 /\ s.key = t.key /\ s.at = clockTime + TwoHours
                      ELSE /\ now = clockTime + TwoHours
                           /\ (unacknowledged /\ permission = "granted") => Emitted(t)
                           /\ \E r \in fired :
                                  r.tier = 1 /\ r.key = t.key /\ r.at = clockTime + OneHour
       /\ now' # now => \A t \in timers : t.at > now]_vars

\* both notifications of one slot have been shown, one and two hours after
\* its clock time, with no pass or teardown in between
C5_Witness ==
    /\ Mounted
    /\ \E r1, r2 \in fired :
           /\ r1.tier = 1 /\ r2.tier = 2 /\ r1.key = r2.key
           /\ r1.emitted /\ r2.emitted
           /\ r1.tid.gen = gen /\ r2.tid.gen = gen
           /\ r1.at = MedDateTime(r1.key[2], now) + OneHour
           /\ r2.at = MedDateTime(r2.key[2], now) + TwoHours

\* ---------------------------------------------------------------- C6
\* C6: a scheduling pass that runs at clock time + 1 h or later, but before
\* clock time + 2 h, of an unacknowledged timed slot arms no first-tier timer
\* and arms the second-tier timer of the slot for clock time + 2 h.
C6_LatePassArmsSecondTier ==
    [][ScheduledPass =>
          \A i \in 1..Len(TimedSlots(todaysMeds')) :
              LET slot == TimedSlots(todaysMeds')[i]
                  clockTime == MedDateTime(slot.time, now)
              IN  (/\ SlotKey(slot) \notin store[TodayKey(now)]
                   /\ clockTime + OneHour <= now
                   /\ now < clockTime + TwoHours) =>
                      /\ \A t \in timers' : t.tid # TimerId(gen', i, 1)
                      /\ \E s \in timers' :
                             /\ s.tier = 2 /\ s.key = SlotKey(slot)
                             /\ s.at = clockTime + TwoHours]_vars

\* ---------------------------------------------------------------- C7
\* C7: no callback runs of a timer that was armed by a scheduling pass, or by
\* a callback of that pass while it was the current one, once a later pass or
\* an unmount has torn that pass down.
C7_NoCallbackAfterTeardown ==
    [][\A t \in timers :
           (Ran(t) /\ t.armGen = t.tid.gen) => t.armGen = gen]_vars

\* ---------------------------------------------------------------- C8
\* C8: a scheduling pass that runs right after a scheduling pass, with the
\* same due-set, leaves timers pending for the same keys as before it and no
\* timer of the earlier pass pending.
C8_PassIdempotent ==
    [][(ScheduledPass /\ untouched /\ todaysMeds' = todaysMeds) =>
          /\ {t.key : t \in timers'} = {t.key : t \in timers}
          /\ DOMAIN notificationTimers' = DOMAIN notificationTimers
          /\ \A t \in timers' : t.armGen # gen]_vars

\* ---------------------------------------------------------------- C9
\* C9: while the component is mounted, handleMarkTaken can be reached for
\* every timed slot of the due-set that is not acknowledged.
C9_MarkTakenAlwaysAvailable ==
    Mounted =>
        \A k \in SlotKeys(todaysMeds) :
            (k \notin store[TodayKey(now)] /\ k \notin takenMedsState) =>
                ENABLED MarkTaken(k)

\* ---------------------------------------------------------------- C10
\* C10: no step removes a key from the map of any date, and a step that
\* writes the store inserts exactly one key into one map.
C10_AcknowledgementsNeverRemoved ==
    [][/\ \A d \in Days : store[d] \subseteq store'[d]
       /\ store' # store =>
              \E d \in Days : \E k \in Keys :
                  k \notin store[d] /\ store' = [store EXCEPT ![d] = store[d] \cup {k}]]_vars

\* ---------------------------------------------------------------- C11
\* C11: every callback that runs consults the map of the date that is current
\* when it runs; a step that writes the store writes only the map of the
\* current date and adds to it nothing but the key that is marked taken in
\* that step.
C11_CurrentDateMapOnly ==
    [][/\ \A t \in timers : Ran(t) => t.todayKey = TodayKey(now)
       /\ \A d \in Days :
              /\ d # TodayKey(now) => store'[d] = store[d]
              /\ store'[d] \ store[d] \subseteq
                     (takenMedsState' \ takenMedsState) \cup (otherTaken' \ otherTaken)]_vars

\* ---------------------------------------------------------------- C12
\* the browser keeps running: sign-in completes, time passes, and a timeout
\* whose delay has elapsed runs its callback
FairSpec ==
    /\ Spec
    /\ WF_vars(AuthStateChanged)
    /\ WF_vars(Tick)
    /\ WF_vars(\E t \in timers : FireFirst(t))
    /\ WF_vars(\E t \in timers : FireSecond(t))

\* the date of the last scheduling pass of the mounted instance
LastPassDate == notifiedGeneralMeds.date

\* the mounted component holds a due-set or timers of a pass that ran on an
\* earlier date or on other records
Stale ==
    /\ Mounted
    /\ \/ LastPassDate # TodayKey(now)
       \/ todaysMeds # TodaysMeds(mainIbdMed, supplements, now)

\* C12: whenever the date has changed or a record has changed since the last
\* scheduling pass of the mounted component, a scheduling pass for the
\* current date and records eventually runs.
C12_ChangeLeadsToPass == Stale ~> ~Stale

\* ---------------------------------------------------------------- C13
\* C13: the passes of one component instance show at most one general
\* notification per medication without clock times within one calendar day
\* of the user, and the marker of an instance loses entries only in a pass
\* that observes a date other than the marker's.
C13_OneGeneralPerDay ==
    [][/\ \A r1, r2 \in fired' :
              (/\ r1.tier = 0 /\ r2.tier = 0
               /\ r1.key = r2.key
               /\ r1.inst = r2.inst
               /\ LocalDay(r1.at) = LocalDay(r2.at)) => r1 = r2
       /\ (inst' = inst /\ ~(notifiedGeneralMeds.ids \subseteq notifiedGeneralMeds'.ids)) =>
              notifiedGeneralMeds.date # TodayKey(now)]_vars

\* ---------------------------------------------------------------- C26
\* C26: while the component is mounted its timer table holds exactly the
\* pending timers, and no two pending timers belong to the same key and
\* tier: arming under a key that has a pending timer replaces that timer.
C26_TableHoldsLiveTimers ==
    Mounted =>
        /\ {t.tid : t \in timers} = {notificationTimers[k] : k \in DOMAIN notificationTimers}
        /\ \A t1, t2 \in timers : (t1.key = t2.key /\ t1.tier = t2.tier) => t1 = t2

\* ---------------------------------------------------------------- C27
\* C27: a pass run for an edit of one medication keeps the reminders of the
\* other medication: a timer pending for a later instant for one of its
\* unacknowledged slots is pending after the pass for the same key, tier and
\* instant.
C27_EditKeepsOtherReminders ==
    [][\A id \in {"main_doc", "s1"} :
          (/\ Mounted
           /\ gen' = gen + 1
           /\ currentPage' = currentPage
           /\ \/ id = "s1" /\ mainIbdMed' # mainIbdMed /\ supplements' = supplements
              \/ id = "main_doc" /\ supplements' # supplements /\ mainIbdMed' = mainIbdMed) =>
              \A t \in timers :
                  (t.key[1] = id /\ t.at > now /\ t.key \notin store[TodayKey(now)]) =>
                      \E s \in timers' : s.key = t.key /\ s.tier = t.tier /\ s.at = t.at]_vars

\* ---------------------------------------------------------------- C28
\* C28: a timer is pending only while the component is mounted (the page is
\* the dashboard and authentication is ready); no timer is armed and no
\* callback runs while it is not.
C28_TimersOnlyWhileMounted ==
    [][/\ ~Mounted' => timers' = {}
       /\ (~Mounted /\ ~Mounted') => fired' = fired]_vars

\* ------------------------------------------------------ failing platform
\* what localStorage holds under a date key when JSON.parse of it throws
Unreadable == {<<"", NoTime, "unparsable">>}

Readable(d) == store[d] # Unreadable

\* an error thrown inside an effect is not caught by any error boundary of
\* App: React unmounts the whole tree and no page is rendered any more
NoPage == ""

Alive == currentPage \in Pages

\* the browser may have no Notification object at all ("unavailable"); the
\* stored maps are readable at first
ErrInit ==
    /\ tz = 0
    /\ now = StartTick
    /\ currentPage = "dashboard"
    /\ isAuthReady = FALSE
    /\ mainIbdMed = NoMed
    /\ supplements = <<>>
    /\ todaysMeds = <<>>
    /\ takenMedsState = {}
    /\ notificationTimers = EmptyTable
    /\ notifiedGeneralMeds = EmptyMarker
    /\ timers = {}
    /\ store = [d \in Days |-> {}]
    /\ permission \in {"granted", "denied", "unavailable"}
    /\ buttons = {}
    /\ fired = {}
    /\ gen = 0
    /\ inst = 0
    /\ events = 0
    /\ otherTaken = {}
    /\ otherButtons = {}
    /\ acked = {}
    /\ untouched = FALSE
    /\ NoTravel

\* the value stored under today's key stops being valid JSON (written by
\* other code of the origin, or truncated)
StoreBreaks ==
    /\ isAuthReady /\ Alive
    /\ Readable(TodayKey(now))
    /\ store' = [store EXCEPT ![TodayKey(now)] = Unreadable]
    /\ untouched' = FALSE
    /\ UNCHANGED travel
    /\ UNCHANGED <<now, tz, currentPage, isAuthReady, mainIbdMed, supplements, todaysMeds,
                   takenMedsState, notificationTimers, notifiedGeneralMeds, timers,
                   permission, buttons, fired, gen, inst, events, otherTaken, otherButtons,
                   acked>>

\* the first medication without clock times at which the pass evaluates
\* Notification.permission although no Notification object exists (0: none)
GeneralThrowIdx(tm, marker) ==
    LET todayKey == TodayKey(now)
        ids == IF marker.date # todayKey THEN {} ELSE marker.ids
        bad == {i \in 1..Len(tm) :
                   /\ tm[i].times = <<>>
                   /\ <<tm[i].id, todayKey>> \notin ids
                   /\ permission = "unavailable"}
    IN  IF bad = {} THEN 0 ELSE CHOOSE i \in bad : \A j \in bad : i <= j

\* the memo, the cleanup of the previous effect and the effect, which may
\* throw: at the read of the store, or at the first general reminder
ErrResync(main, sups) ==
    LET tm == TodaysMeds(main, sups, now)
        todayKey == TodayKey(now)
        cleaned == Cleared(timers, notificationTimers)
        j == GeneralThrowIdx(tm, notifiedGeneralMeds)
        done == SubSeq(tm, 1, j - 1)
    IN  IF ~Readable(todayKey)
        THEN /\ timers' = cleaned
             /\ todaysMeds' = tm
             /\ gen' = gen + 1
             /\ currentPage' = NoPage
             /\ buttons' = {}
             /\ untouched' = FALSE
             /\ UNCHANGED <<takenMedsState, notificationTimers, notifiedGeneralMeds, fired,
                            inst>>
        ELSE IF j > 0
        THEN /\ timers' = cleaned \cup
                     {FirstTimer(TimedSlots(done)[i], i, gen + 1, inst, now) :
                          i \in ArmedIdx(done, store[todayKey], now)}
             /\ notificationTimers' = PassTable(done, store[todayKey], gen + 1, now)
             /\ notifiedGeneralMeds' =
                    IF notifiedGeneralMeds.date # todayKey
                    THEN [date |-> todayKey, ids |-> {}]
                    ELSE notifiedGeneralMeds
             /\ takenMedsState' = store[todayKey]
             /\ todaysMeds' = tm
             /\ gen' = gen + 1
             /\ currentPage' = NoPage
             /\ buttons' = {}
             /\ untouched' = FALSE
             /\ UNCHANGED <<fired, inst>>
        ELSE Resync(main, sups) /\ UNCHANGED currentPage

ErrSnapshotMain(med) ==
    /\ Mounted
    /\ events < MaxEvents
    /\ events' = events + 1
    /\ mainIbdMed' = med
    /\ ErrResync(med, supplements)
    /\ UNCHANGED travel
    /\ UNCHANGED <<now, tz, isAuthReady, supplements, store, permission, otherTaken,
                   otherButtons, acked>>

ErrSnapshotSupplements(sups) ==
    /\ Mounted
    /\ events < MaxEvents
    /\ events' = events + 1
    /\ supplements' = sups
    /\ ErrResync(mainIbdMed, sups)
    /\ UNCHANGED travel
    /\ UNCHANGED <<now, tz, isAuthReady, mainIbdMed, store, permission, otherTaken,
                   otherButtons, acked>>

\* the test of both callbacks throws: JSON.parse of the stored text, or
\* Notification.permission with no Notification object (evaluated only when
\* the key is not acknowledged)
CallbackThrows(t) ==
    \/ ~Readable(t.todayKey)
    \/ (Unacknowledged(t) /\ permission = "unavailable")

\* a callback that throws at its first statement: the timeout is spent and
\* nothing else of the callback runs
Aborted(t) ==
    /\ timers' = timers \ {t}
    /\ fired' = fired \cup
           {[tid |-> t.tid, tier |-> t.tier, key |-> t.key, at |-> now, emitted |-> FALSE]}
    /\ untouched' = FALSE
    /\ UNCHANGED travel
    /\ UNCHANGED <<now, tz, currentPage, isAuthReady, mainIbdMed, supplements, todaysMeds,
                   takenMedsState, notificationTimers, notifiedGeneralMeds, store,
                   permission, buttons, gen, inst, events, otherTaken, otherButtons, acked>>

ErrFireFirst(t) ==
    /\ t \in timers /\ t.tier = 1 /\ t.at <= now
    /\ IF CallbackThrows(t) THEN Aborted(t) ELSE FireFirst(t)

ErrFireSecond(t) ==
    /\ t \in timers /\ t.tier = 2 /\ t.at <= now
    /\ IF CallbackThrows(t) THEN Aborted(t) ELSE FireSecond(t)

ErrNext ==
    \/ AuthStateChanged
    \/ StoreBreaks
    \/ \E med \in MainChoices \ {NoMed} : ErrSnapshotMain(med)
    \/ \E sups \in SupplementChoices \ {<<>>} : ErrSnapshotSupplements(sups)
    \/ \E k \in Keys : MarkTaken(k)
    \/ \E t \in timers : ErrFireFirst(t)
    \/ \E t \in timers : ErrFireSecond(t)
    \/ Tick

ErrSpec == ErrInit /\ [][ErrNext]_vars

\* the step is a snapshot delivered to the mounted component: the cleanup of
\* the previous effect and the effect run
PassAttempt == Mounted /\ events' = events + 1

\* ---------------------------------------------------------------- C14
\* C14: a scheduling pass that cannot read the acknowledgement store arms no
\* new timer and leaves every timer pending that was pending before it.
C14_FailedReadKeepsTimers ==
    [][(PassAttempt /\ ~Readable(TodayKey(now))) => timers' = timers]_vars

\* ---------------------------------------------------------------- C15
\* C15: with notification permission denied or no notification service, and
\* the store readable, a callback shows nothing and completes (a first-tier
\* callback arms the second tier and leaves the table), a pass shows no
\* general notification and arms the first-tier timer of every
\* unacknowledged slot whose first reminder is still ahead, and markTaken
\* records the key and cancels the timers the table holds under it.
C15_SilentWithoutNotifications ==
    [][(permission \in {"denied", "unavailable"} /\ \A d \in Days : Readable(d)) =>
          /\ \A t \in timers :
                 Ran(t) =>
                     /\ ~Emitted(t)
                     /\ (IF t.tier = 1 THEN t.key ELSE SecondKey(t.key))
                            \notin DOMAIN notificationTimers'
                     /\ (t.tier = 1 /\ t.twoHoursAfter > now) =>
                            \E s \in timers' \ timers : s.tier = 2 /\ s.key = t.key
          /\ PassAttempt =>
                 /\ \A r \in fired' \ fired : ~r.emitted
                 /\ \A i \in 1..Len(TimedSlots(todaysMeds')) :
                        LET slot == TimedSlots(todaysMeds')[i]
                            clockTime == MedDateTime(slot.time, now)
                        IN  (/\ SlotKey(slot) \notin store[TodayKey(now)]
                             /\ clockTime + OneHour > now) =>
                                \E t \in timers' : t.tid = TimerId(gen', i, 1)
          /\ \A a \in acked' \ acked :
                 /\ a.key \in store'[TodayKey(now)]
                 /\ a.key \notin DOMAIN notificationTimers'
                 /\ SecondKey(a.key) \notin DOMAIN notificationTimers'
                 /\ \A k \in DOMAIN notificationTimers \cap {a.key, SecondKey(a.key)} :
                        \A t \in timers' : t.tid # notificationTimers[k]]_vars

\* ------------------------------------------- the due-date rule on its own
\* a primary medication record as the form saves it
DueMed(frequency, startDate, times) ==
    [id |-> "main_doc", frequency |-> frequency, medTimes |-> times, startDate |-> startDate]

\* requiresSpecificTimesCount of the form
RequiresSpecificTimesCount(frequency) ==
    CASE frequency = "Once daily" -> 1
      [] frequency = "Twice daily" -> 2
      [] frequency = "Three times daily" -> 3
      [] RequiresStartDate(frequency) -> 1
      [] OTHER -> 0

\* the time inputs of the form after a frequency is chosen and the times are
\* filled in: as many as the frequency requires
FormTimes(frequency) ==
    CASE frequency = "Twice daily" -> <<9 * OneHour, 21 * OneHour>>
      [] frequency = "Three times daily" -> <<8 * OneHour, 14 * OneHour, 20 * OneHour>>
      [] frequency = "As needed" -> <<>>
      [] OTHER -> <<21 * OneHour>>

\* the stored records: every frequency, with or without a start date, with
\* all the times of the form or with fewer of them
DueRecords ==
    UNION {{DueMed(f, sd, SubSeq(FormTimes(f), 1, n)) :
                sd \in {NoDate} \cup (0..MaxDay), n \in 0..Len(FormTimes(f))} :
           f \in Frequencies}

\* the dashboard is opened at 21:00 local time of any day 0..MaxDay
DueInit ==
    /\ tz \in TzChoices
    /\ now \in {StartTick - tz + d * DayLen : d \in 0..MaxDay}
    /\ currentPage = "dashboard"
    /\ isAuthReady = FALSE
    /\ mainIbdMed = NoMed
    /\ supplements = <<>>
    /\ todaysMeds = <<>>
    /\ takenMedsState = {}
    /\ notificationTimers = EmptyTable
    /\ notifiedGeneralMeds = EmptyMarker
    /\ timers = {}
    /\ store = [d \in Days |-> {}]
    /\ permission = "granted"
    /\ buttons = {}
    /\ fired = {}
    /\ gen = 0
    /\ inst = 0
    /\ events = 0
    /\ otherTaken = {}
    /\ otherButtons = {}
    /\ acked = {}
    /\ untouched = FALSE
    /\ NoTravel

\* the one snapshot that delivers the stored record
DueSnapshot(med) == events = 0 /\ SnapshotMain(med)

DueNext ==
    \/ AuthStateChanged
    \/ \E med \in DueRecords : DueSnapshot(med)

DueSpec == DueInit /\ [][DueNext]_vars

\* the record has been delivered and the due-set computed from it
Queried == Mounted /\ mainIbdMed # NoMed

\* the record is in the due-set
InDueSet == \E i \in 1..Len(todaysMeds) : todaysMeds[i].id = mainIbdMed.id

\* the whole number of days from the start date to the query date, both
\* calendar dates of the user
DayOffset == LocalDay(now) - mainIbdMed.startDate

IntervalOf(frequency) ==
    CASE frequency = "Every other day" -> 2
      [] frequency = "Every three days" -> 3
      [] frequency = "Every four days" -> 4

\* ---------------------------------------------------------------- C16
\* C16: a record with frequency Every other day, Every three days or Every
\* four days (N = 2, 3, 4) and a start date is in the due-set if and only if the
\* day offset d from the start date to the query date is >= 0 and d mod N = 0.
C16_IntervalDueIffMultiple ==
    (/\ Queried
     /\ mainIbdMed.frequency \in {"Every other day", "Every three days", "Every four days"}
     /\ mainIbdMed.startDate # NoDate) =>
        (InDueSet <=> (DayOffset >= 0 /\ DayOffset % IntervalOf(mainIbdMed.frequency) = 0))

\* ---------------------------------------------------------------- C17
\* C17: a Bi-weekly record with a start date is in the due-set if and only if
\* the query date falls on the start date's day of week and floor(d / 7) is
\* even; so offset 0 and offset 14 are due and offset 7 is not.
C17_BiWeeklyAlternateWeeks ==
    (/\ Queried
     /\ mainIbdMed.frequency = "Bi-weekly"
     /\ mainIbdMed.startDate # NoDate) =>
        (InDueSet <=> (DayOffset % 7 = 0 /\ (DayOffset \div 7) % 2 = 0))

\* ---------------------------------------------------------------- C18
\* C18: a Weekly record with a start date is in the due-set if and only if the
\* day offset from the start date to the query date is a multiple of 7.
C18_WeeklySameWeekday ==
    (/\ Queried
     /\ mainIbdMed.frequency = "Weekly"
     /\ mainIbdMed.startDate # NoDate) =>
        (InDueSet <=> DayOffset % 7 = 0)

\* ---------------------------------------------------------------- C19
\* C19: a record whose frequency requires a start date is in the due-set when
\* the query date is the start date itself.
C19_DueOnStartDate ==
    (/\ Queried
     /\ RequiresStartDate(mainIbdMed.frequency)
     /\ mainIbdMed.startDate # NoDate
     /\ DayOffset = 0) => InDueSet

\* ---------------------------------------------------------------- C20
\* C20: a record whose frequency requires a start date and that has none is
\* not due on any query date; it is not in the due-set and has neither a timer
\* nor a notification.
C20_NoStartDateNeverDue ==
    (/\ Queried
     /\ RequiresStartDate(mainIbdMed.frequency)
     /\ mainIbdMed.startDate = NoDate) =>
        /\ ~IsMedicationDueToday(mainIbdMed, now)
        /\ ~InDueSet
        /\ \A t \in timers : t.key[1] # mainIbdMed.id
        /\ \A r \in fired : r.key[1] # mainIbdMed.id

\* such a record, with a clock time, has been delivered to the mounted
\* component
C20_Witness ==
    /\ Queried
    /\ RequiresStartDate(mainIbdMed.frequency)
    /\ mainIbdMed.startDate = NoDate
    /\ mainIbdMed.medTimes # <<>>
    /\ untouched

\* the whole number of slots of an entry of the due list: a null times is one
\* whole-day slot
SlotCount(entry) == IF entry.times = <<>> THEN 1 ELSE Len(entry.times)

\* ---------------------------------------------------------------- C21
\* C21: an As needed record is never in the due-set, and a Once daily, Twice
\* daily or Three times daily record is in the due-set on every query date,
\* with or without a start date and also when the start date is later than
\* the query date.
C21_NonAnchoredIgnoreDates ==
    Queried =>
        /\ mainIbdMed.frequency = "As needed" =>
               ~InDueSet /\ ~IsMedicationDueToday(mainIbdMed, now)
        /\ mainIbdMed.frequency \in {"Once daily", "Twice daily", "Three times daily"} =>
               InDueSet /\ IsMedicationDueToday(mainIbdMed, now)

\* a daily record whose start date is later than the query date is in the
\* due-set
C21_Witness ==
    /\ Queried
    /\ mainIbdMed.frequency = "Twice daily"
    /\ mainIbdMed.startDate # NoDate
    /\ mainIbdMed.startDate > LocalDay(now)
    /\ InDueSet

Ceil(a, b) == (a + b - 1) \div b

Abs(x) == IF x < 0 THEN -x ELSE x

\* a dose count that rounds the interval kinds down
CalculateDosesFloor(frequency, durationDays) ==
    CASE frequency = "Once daily" -> durationDays
      [] frequency = "Twice daily" -> durationDays * 2
      [] frequency = "Three times daily" -> durationDays * 3
      [] frequency = "Every other day" -> durationDays \div 2
      [] frequency = "Every three days" -> durationDays \div 3
      [] frequency = "Every four days" -> durationDays \div 4
      [] frequency = "Weekly" -> durationDays \div 7
      [] frequency = "Bi-weekly" -> durationDays \div 14
      [] OTHER -> 0

CalculateDosesNeeded(frequency, durationDays) ==
    IF frequency = "" \/ durationDays = 0 THEN 0
    ELSE CASE frequency = "Once daily" -> durationDays
           [] frequency = "Twice daily" -> durationDays * 2
           [] frequency = "Three times daily" -> durationDays * 3
           [] frequency = "Every other day" -> Ceil(durationDays, 2)
           [] frequency = "Every three days" -> Ceil(durationDays, 3)
           [] frequency = "Every four days" -> Ceil(durationDays, 4)
           [] frequency = "Weekly" -> Ceil(durationDays, 7)
           [] frequency = "Bi-weekly" -> Ceil(durationDays, 14)
           [] OTHER -> 0

\* a duration that counts the nights
DurationNights(dep, ret) == Ceil(Abs(ret * DayLen - dep * DayLen), DayLen)

\* new Date('YYYY-MM-DD') is 00:00 UTC of the date for both dates
DurationDays(dep, ret) == Ceil(Abs(ret * DayLen - dep * DayLen), DayLen) + 1

\* a buffer that does not grow with the trip
ExtraDosesFlat(durationDays) == 2

ExtraDoses(durationDays) ==
    IF durationDays < 14 THEN 2
    ELSE IF durationDays <= 30 THEN 3
    ELSE 4

\* the effect of TravelModePage on [departureDate, returnDate, supplements,
\* mainIbdMed]; a later supplement of the same name overwrites the entry
TravelEffect(main, sups, dep, ret) ==
    IF dep # NoDate /\ ret # NoDate
    THEN LET durationDays == DurationDays(dep, ret)
             names == {sups[i].name : i \in 1..Len(sups)}
             Last(nm) == CHOOSE i \in 1..Len(sups) :
                             /\ sups[i].name = nm
                             /\ \A j \in 1..Len(sups) : sups[j].name = nm => j <= i
         IN  /\ primaryMedNeeded' =
                    IF main # NoMed
                    THEN CalculateDosesNeeded(main.frequency, durationDays)
                         + ExtraDoses(durationDays)
                    ELSE 0
             /\ supplementsNeeded' =
                    [nm \in names |->
                        CalculateDosesNeeded(sups[Last(nm)].frequency, durationDays)]
    ELSE /\ primaryMedNeeded' = 0
         /\ supplementsNeeded' = <<>>

\* the latest travel date offered
MaxTrip == 30

\* the dates offered by the two inputs, and '': trips of 1 to MaxTrip + 1 days
TravelDates == {NoDate} \cup (0..MaxDay) \cup {MaxTrip}

\* the primary medication as the form saves it
TravelMains ==
    {NoMed} \cup {DueMed(f, IF RequiresStartDate(f) THEN 0 ELSE NoDate, FormTimes(f)) :
                      f \in {"Once daily", "Twice daily", "Weekly", "As needed"}}

\* a supplement as the form saves it
TravelSupplement(frequency, startDate) ==
    [id |-> "s1", name |-> "Iron", frequency |-> frequency,
     medTimes |-> FormTimes(frequency), startDate |-> startDate]

\* no supplement, or one: the form keeps a start date only for the
\* frequencies that require one, at the beginning or at the end of the days
\* 0..MaxDay (or none, in older records)
TravelSupplements ==
    {<<>>} \cup {<<TravelSupplement(f, sd)>> :
                     f \in Frequencies \ {f \in Frequencies : RequiresStartDate(f)},
                     sd \in {NoDate}}
           \cup {<<TravelSupplement(f, sd)>> :
                     f \in {f \in Frequencies : RequiresStartDate(f)},
                     sd \in {NoDate, 0, MaxDay}}

\* the travel page is open from the start
TravelInit ==
    /\ tz \in TzChoices
    /\ now = StartTick - tz
    /\ currentPage = "travelMode"
    /\ isAuthReady = FALSE
    /\ mainIbdMed = NoMed
    /\ supplements = <<>>
    /\ todaysMeds = <<>>
    /\ takenMedsState = {}
    /\ notificationTimers = EmptyTable
    /\ notifiedGeneralMeds = EmptyMarker
    /\ timers = {}
    /\ store = [d \in Days |-> {}]
    /\ permission = "default"
    /\ buttons = {}
    /\ fired = {}
    /\ gen = 0
    /\ inst = 0
    /\ events = 0
    /\ otherTaken = {}
    /\ otherButtons = {}
    /\ acked = {}
    /\ untouched = FALSE
    /\ NoTravel

\* what no action of the travel page changes
TravelFrame ==
    UNCHANGED <<now, tz, currentPage, isAuthReady, todaysMeds, takenMedsState,
                notificationTimers, notifiedGeneralMeds, timers, store, permission,
                buttons, fired, gen, inst, events, otherTaken, otherButtons, acked,
                untouched>>

\* onSnapshot of the primary medication while the travel page is open
TravelSnapshotMain(med) ==
    /\ isAuthReady
    /\ med # mainIbdMed
    /\ mainIbdMed' = med
    /\ TravelEffect(med, supplements, departureDate, returnDate)
    /\ UNCHANGED <<supplements, departureDate, returnDate>>
    /\ TravelFrame

\* onSnapshot of the supplements while the travel page is open
TravelSnapshotSupplements(sups) ==
    /\ isAuthReady
    /\ sups # supplements
    /\ supplements' = sups
    /\ TravelEffect(mainIbdMed, sups, departureDate, returnDate)
    /\ UNCHANGED <<mainIbdMed, departureDate, returnDate>>
    /\ TravelFrame

\* onChange of the departure date input
SetDepartureDate(d) ==
    /\ d # departureDate
    /\ departureDate' = d
    /\ TravelEffect(mainIbdMed, supplements, d, returnDate)
    /\ UNCHANGED <<mainIbdMed, supplements, returnDate>>
    /\ TravelFrame

\* onChange of the return date input
SetReturnDate(d) ==
    /\ d # returnDate
    /\ returnDate' = d
    /\ TravelEffect(mainIbdMed, supplements, departureDate, d)
    /\ UNCHANGED <<mainIbdMed, supplements, departureDate>>
    /\ TravelFrame

TravelNext ==
    \/ AuthStateChanged
    \/ \E med \in TravelMains : TravelSnapshotMain(med)
    \/ \E sups \in TravelSupplements : TravelSnapshotSupplements(sups)
    \/ \E d \in TravelDates : SetDepartureDate(d)
    \/ \E d \in TravelDates : SetReturnDate(d)

TravelSpec == TravelInit /\ [][TravelNext]_vars

\* both travel dates are entered
DatesSet == departureDate # NoDate /\ returnDate # NoDate

\* the days of the trip, both endpoints counted
TripDays == Abs(returnDate - departureDate) + 1

\* the least m with m * k >= n
LeastCover(n, k) == CHOOSE m \in 0..n : m * k >= n /\ (m = 0 \/ (m - 1) * k < n)

\* the reference table of doses for n days
ReferenceDoses(frequency, n) ==
    CASE frequency = "Once daily" -> n
      [] frequency = "Twice daily" -> n + n
      [] frequency = "Three times daily" -> n + n + n
      [] frequency = "Every other day" -> LeastCover(n, 2)
      [] frequency = "Every three days" -> LeastCover(n, 3)
      [] frequency = "Every four days" -> LeastCover(n, 4)
      [] frequency = "Weekly" -> LeastCover(n, 7)
      [] frequency = "Bi-weekly" -> LeastCover(n, 14)
      [] frequency = "As needed" -> 0

\* the doses of a due day
DosesPerDueDay(frequency) ==
    CASE frequency = "Twice daily" -> 2
      [] frequency = "Three times daily" -> 3
      [] OTHER -> 1

\* an instant of the local calendar day d
TickOn(d) == d * DayLen + StartTick - tz

FirstDay == IF departureDate <= returnDate THEN departureDate ELSE returnDate

\* the days of the trip on which the due-date rule holds for med
DueDaysOfTrip(med) ==
    Cardinality({d \in FirstDay..(FirstDay + TripDays - 1) :
                    IsMedicationDueToday(med, TickOn(d))})

\* ---------------------------------------------------------------- C22
\* C22: for every frequency and every number of days n >= 0 the computed dose
\* count is the one of the reference table: n, 2n, 3n for the daily kinds,
\* ceil(n/2), ceil(n/3), ceil(n/4), ceil(n/7), ceil(n/14) for the interval,
\* weekly and bi-weekly kinds, 0 for As needed.
C22_DosesMatchTable ==
    /\ \A f \in Frequencies : CalculateDosesNeeded(f, 0) = ReferenceDoses(f, 0)
    /\ DatesSet =>
           /\ \A f \in Frequencies :
                  CalculateDosesNeeded(f, TripDays) = ReferenceDoses(f, TripDays)
           /\ \A i \in 1..Len(supplements) :
                  supplementsNeeded[supplements[i].name] =
                      ReferenceDoses(supplements[i].frequency, TripDays)

\* a Weekly supplement and a trip of 10 days: 2 doses
C22_Witness ==
    /\ DatesSet
    /\ TripDays = 10
    /\ supplements # <<>>
    /\ supplements[1].frequency = "Weekly"
    /\ supplementsNeeded[supplements[1].name] = 2

\* ---------------------------------------------------------------- C23
\* C23: with both dates set and a primary medication, the primary total is the
\* table's dose count plus 2 for fewer than 14 days, 3 for 14 to 30 days and 4
\* for more than 30 days; a supplement's total is the table's dose count with
\* no buffer.
C23_BufferOnPrimaryOnly ==
    DatesSet =>
        /\ mainIbdMed # NoMed =>
               primaryMedNeeded =
                   ReferenceDoses(mainIbdMed.frequency, TripDays)
                   + (IF TripDays < 14 THEN 2 ELSE IF TripDays > 30 THEN 4 ELSE 3)
        /\ \A i \in 1..Len(supplements) :
               supplementsNeeded[supplements[i].name] =
                   ReferenceDoses(supplements[i].frequency, TripDays)

\* a Once daily primary medication and a trip of more than 30 days, next to
\* a Once daily supplement
C23_Witness ==
    /\ DatesSet
    /\ TripDays > 30
    /\ mainIbdMed # NoMed
    /\ mainIbdMed.frequency = "Once daily"
    /\ primaryMedNeeded = TripDays + 4
    /\ supplements # <<>>
    /\ supplements[1].frequency = "Once daily"
    /\ supplementsNeeded[supplements[1].name] = TripDays

\* ---------------------------------------------------------------- C24
\* C24: the duration of a trip is the whole number of days between the two
\* dates plus one: both endpoints count, a same-day trip lasts 1 day, and
\* swapping departure and return gives the same duration; with either date
\* unset the primary total is 0 and there are no supplement totals.
C24_DurationInclusive ==
    /\ DatesSet =>
           /\ DurationDays(departureDate, returnDate) = TripDays
           /\ DurationDays(departureDate, returnDate) >= 1
           /\ DurationDays(returnDate, departureDate) =
                  DurationDays(departureDate, returnDate)
           /\ departureDate = returnDate => DurationDays(departureDate, returnDate) = 1
           /\ \A i \in 1..Len(supplements) :
                  supplements[i].frequency = "Once daily" =>
                      supplementsNeeded[supplements[i].name] = TripDays
    /\ ~DatesSet => (primaryMedNeeded = 0 /\ supplementsNeeded = <<>>)

\* a return date earlier than the departure date, with a Once daily
\* supplement
C24_Witness ==
    /\ DatesSet
    /\ returnDate < departureDate
    /\ supplements # <<>>
    /\ supplements[1].frequency = "Once daily"
    /\ supplementsNeeded[supplements[1].name] = departureDate - returnDate + 1

\* ---------------------------------------------------------------- C29
\* C29: for every supplement and every trip, the number of days of the trip
\* on which the supplement is due, times the doses of a due day, is at most
\* the dose count computed for the trip, and equal to it when the supplement
\* is due on the first day of the trip.
C29_ProvisionCoversDueDays ==
    DatesSet =>
        \A i \in 1..Len(supplements) :
            LET sup == supplements[i]
                required == DueDaysOfTrip(sup) * DosesPerDueDay(sup.frequency)
            IN  /\ required <= supplementsNeeded[sup.name]
                /\ IsMedicationDueToday(sup, TickOn(FirstDay)) =>
                       required = supplementsNeeded[sup.name]

\* a Bi-weekly supplement due on the first and on the fifteenth day of a
\* trip
C29_Witness ==
    /\ DatesSet
    /\ supplements # <<>>
    /\ supplements[1].frequency = "Bi-weekly"
    /\ IsMedicationDueToday(supplements[1], TickOn(FirstDay))
    /\ DueDaysOfTrip(supplements[1]) = 2
    /\ supplementsNeeded[supplements[1].name] = 2

====
